---- MODULE Spec2Model ----
(***************************************************************************)
(* oct2py/session.py: the Oct2Py object, its low-level _Session and the    *)
(* text protocol they speak with the Octave engine.                       *)
(*                                                                         *)
(* Text is a sequence of tokens.  A token stands for one character or for  *)
(* one literal the code matches as a unit:                                 *)
(*   "NL" '\n'   "CR" '\r'   "SP" ' '   "ETX" '\x03'   "NAK" '\x15'        *)
(*   "SE" the words 'syntax error'      "CARET" '^'                        *)
(*   "debug>" / "octave>" the prompt words (the prompt is word + "SP")     *)
(*   "KB" one keyboard(...) call        "IFILE" '__oct2py_interact'        *)
(* every other token is ordinary printable text.                           *)
(***************************************************************************)
EXTENDS Integers, Sequences, FiniteSets, TLC

\* ------------------------------------------------------------------ bounds
\* _Session objects created in one run of the host program
MaxSessions == 2

\* lines the operator types at one debug prompt
MaxOpLines == 2

\* operations the host program performs on the Oct2Py object
MaxOps == 3

NoSession == 0

Sessions == 1..MaxSessions

\* ------------------------------------------------------------- text helpers
Whitespace == {"NL", "CR", "SP"}

EndsWith(s, t) ==
  /\ Len(t) <= Len(s)
  /\ SubSeq(s, Len(s) - Len(t) + 1, Len(s)) = t

Contains(s, t) ==
  \E i \in 0..(Len(s) - Len(t)) : SubSeq(s, i + 1, i + Len(t)) = t

Drop(s, n) == SubSeq(s, n + 1, Len(s))

RECURSIVE RStrip(_)
RStrip(s) ==
  IF s # <<>> /\ s[Len(s)] \in Whitespace THEN RStrip(SubSeq(s, 1, Len(s) - 1)) ELSE s

RECURSIVE LStrip(_)
LStrip(s) ==
  IF s # <<>> /\ s[1] \in Whitespace THEN LStrip(Tail(s)) ELSE s

Strip(s) == LStrip(RStrip(s))

\* sep.join(parts)
RECURSIVE Join(_, _)
Join(parts, sep) ==
  IF parts = <<>> THEN <<>>
  ELSE IF Len(parts) = 1 THEN parts[1]
  ELSE parts[1] \o sep \o Join(Tail(parts), sep)

\* ''.join(parts)
RECURSIVE Concat(_)
Concat(parts) == IF parts = <<>> THEN <<>> ELSE parts[1] \o Concat(Tail(parts))

\* resp[:-4]
DropLast4(resp) == IF Len(resp) <= 4 THEN <<>> ELSE SubSeq(resp, 1, Len(resp) - 4)

\* ------------------------------------------------------------ protocol text
ETX == <<"ETX">>

NAK == <<"NAK">>

SyntaxErrorText == <<"SE">>

DebugPrompt == <<"debug>", "SP">>

OctavePrompt == <<"octave>", "SP">>

InText(tok, s) == \E i \in 1..Len(s) : s[i] = tok

\* the messages of the diagnostics, by the line that raises them
NoSessionMsg == <<"No Octave Session">>

SessionClosedMsg == <<"Session Closed, try a restart()">>

NeedPexpectMsg == <<"Please install pexpect for interaction capability">>

\* the message without the lines Octave returned
ReturnedMsgMutNoLines(main_line, resp) ==
  <<"Oct2Py tried to run:", "NL", "QQQ", "NL">> \o main_line
     \o <<"NL", "QQQ", "NL", "Octave returned:", "NL">>

ReturnedMsg(main_line, resp) ==
  <<"Oct2Py tried to run:", "NL", "QQQ", "NL">> \o main_line
     \o <<"NL", "QQQ", "NL", "Octave returned:", "NL">> \o resp

SyntaxCatchMsg(main_line) ==
  <<"Oct2Py tried to run:", "NL", "QQQ", "NL">> \o main_line
     \o <<"NL", "QQQ", "NL", "Octave returned Syntax Error">>

SyntaxClosedMsg(resp) ==
  <<"Octave Syntax Error:", "NL">> \o resp \o <<"NL", "Session Closed by Octave">>

\* ------------------------------------------------------------------ expect
\* _Session.expect: read on until the text read so far ends with one of the
\* targets.  The number of tokens consumed, 0 when the stream runs out first.
RECURSIVE ExpectScan(_, _, _)
ExpectScan(st, targets, n) ==
  IF n > Len(st) THEN 0
  ELSE IF \E t \in targets : EndsWith(SubSeq(st, 1, n), t) THEN n
  ELSE ExpectScan(st, targets, n + 1)

\* the last position at which the text ends with a target
ExpectMutLast(st, targets) ==
  IF \A n \in 1..Len(st) : \A t \in targets : ~EndsWith(SubSeq(st, 1, n), t) THEN 0
  ELSE CHOOSE n \in 1..Len(st) :
         /\ \E t \in targets : EndsWith(SubSeq(st, 1, n), t)
         /\ \A m \in (n + 1)..Len(st) : \A t \in targets : ~EndsWith(SubSeq(st, 1, m), t)

Expect(st, targets) == ExpectScan(st, targets, 1)

\* What a read of an exhausted stream does: pexpect raises (EOF when the child
\* is gone, TIMEOUT after its default timeout otherwise); a pipe's read(1)
\* blocks, or returns '' for ever at end of file, and expect() loops on.
Exhausted(k) ==
  IF k.sp THEN (IF k.alive THEN "TIMEOUT" ELSE "EOF") ELSE "hang"

\* _find_prompt loops on read(1): at end of file pexpect's read returns '' as
\* the pipe's does, and the loop never ends; pexpect raises only on a timeout
ReadExhausted(k) == IF k.sp /\ k.alive THEN "TIMEOUT" ELSE "hang"

\* ------------------------------------------------- results of an evaluate
\* exc: "none", a Python exception class, or "hang" (the call never returns)
\* site: the source line of the raise (0: none)
Outcome(exc, site, msg, ret, none, closes, c) ==
  [exc |-> exc, site |-> site, msg |-> msg, ret |-> ret, none |-> none,
   closes |-> closes, st |-> c.st, awaits |-> c.awaits, conts |-> c.conts,
   sent |-> c.sent, val |-> <<>>, steps |-> <<>>]

Stop(exc, c) == Outcome(exc, 0, <<>>, <<>>, FALSE, FALSE, c)

Diagnostic(site, msg, closes, c) ==
  Outcome("Oct2PyError", site, msg, <<>>, FALSE, closes, c)

\* ------------------------------------------------------ handle_syntax_error
\* resp[-1] == lit: resp is a string, so resp[-1] is its last character
LastCharIs(resp, lit) == Len(lit) = 1 /\ EndsWith(resp, lit)

\* handle_syntax_error without self.close(), and with it in both branches
HandleSyntaxErrorMutNoClose(k, c, resp) ==
  IF ~k.sp THEN Diagnostic(614, SyntaxClosedMsg(resp), FALSE, c)
  ELSE Diagnostic(622, ReturnedMsg(k.main, resp), FALSE, c)

HandleSyntaxErrorMutAlwaysClose(k, c, resp) ==
  Diagnostic(614, SyntaxClosedMsg(resp), TRUE, c)

HandleSyntaxError(k, c, resp) ==
  IF ~k.sp THEN Diagnostic(614, SyntaxClosedMsg(resp), TRUE, c)
  ELSE IF LastCharIs(resp, <<">>>", "SP", "catch">>)
    THEN Diagnostic(618, SyntaxCatchMsg(k.main), FALSE, c)
  ELSE Diagnostic(622, ReturnedMsg(k.main, resp), FALSE, c)

\* --------------------------------------------------------------- _interact
\* The engine, stopped at a prompt, receives 'disp(char(3));' + inp
EngineReact(c, inp, prompt, eol) ==
  IF inp \in {"dbcont", "return"}
    THEN [c EXCEPT !.st = @ \o ETX \o eol \o (IF c.later = <<>> THEN <<>> ELSE Head(c.later)),
                   !.later = IF c.later = <<>> THEN <<>> ELSE Tail(c.later)]
  ELSE IF inp = "dbquit"
    THEN [c EXCEPT !.st = @ \o ETX \o eol, !.later = <<>>]
  ELSE [c EXCEPT !.st = @ \o ETX \o eol \o <<"fb">> \o eol \o prompt]

\* the line sent as it was typed
TransmittedMutVerbatim(typed) == typed

\* if inp == 'exit\n': inp = 'return\n'
Transmitted(typed) == IF typed = "exit" THEN "return" ELSE typed

RECURSIVE InteractLoop(_, _, _)
InteractLoop(k, c, prompt) ==
  IF c.ops = <<>> THEN [exc |-> "hang", site |-> 703, cont |-> FALSE, c |-> c]
  ELSE
    LET typed == Head(c.ops)
        inp == Transmitted(typed)
        c1 == EngineReact([c EXCEPT !.ops = Tail(@), !.sent = Append(@, inp)],
                          inp, prompt, k.eol)
    IN
    IF inp \in {"dbcont", "return"} THEN [exc |-> "none", site |-> 0, cont |-> TRUE, c |-> c1]
    ELSE IF inp \in {"dbquit"} THEN [exc |-> "none", site |-> 0, cont |-> FALSE, c |-> c1]
    ELSE
      LET n == Expect(c1.st, {<<"ETX", "CR", "NL">>}) IN
      IF n = 0 THEN [exc |-> Exhausted(k), site |-> 711, cont |-> FALSE, c |-> [c1 EXCEPT !.st = <<>>]]
      ELSE
        LET c2 == [c1 EXCEPT !.st = Drop(@, n)]
            m == Expect(c2.st, {prompt})
        IN
        IF m = 0 THEN [exc |-> ReadExhausted(k), site |-> 712, cont |-> FALSE, c |-> [c2 EXCEPT !.st = <<>>]]
        ELSE InteractLoop(k, [c2 EXCEPT !.st = Drop(@, m)], prompt)

\* _interact without the transport guard
InteractBridgeMutNoGuard(k, c, prompt) ==
  InteractLoop(k, [c EXCEPT !.awaits = @ + 1], prompt)

InteractBridge(k, c, prompt) ==
  IF ~k.nt /\ ~k.sp
    THEN [exc |-> "Oct2PyError", site |-> 701, cont |-> FALSE, c |-> c]
  ELSE InteractLoop(k, [c EXCEPT !.awaits = @ + 1], prompt)

\* ------------------------------------------------- evaluate: the line loop
\* self.write('clear _\n')
ClearScratch == "clear _"

\* resp.append(line) without the condition
AppendLineMutKeepAll(resp, line) == Append(resp, line)

\* if resp or line: resp.append(line)
AppendLine(resp, line) == IF resp # <<>> \/ line # <<>> THEN Append(resp, line) ELSE resp

RECURSIVE LineLoop(_, _)
LineLoop(k, c) ==
  LET n == Expect(c.st, {<<"NL">>, DebugPrompt, OctavePrompt}) IN
  IF n = 0 THEN Stop(Exhausted(k), [c EXCEPT !.st = <<>>])
  ELSE
    LET line == RStrip(SubSeq(c.st, 1, n))
        c1 == [c EXCEPT !.st = Drop(@, n)]
    IN
    IF line = ETX
      THEN Outcome("none", 0, <<>>, Join(c1.resp, <<"NL">>), FALSE, FALSE, c1)
    ELSE IF line = NAK
      THEN Diagnostic(580, ReturnedMsg(k.main, Join(c1.resp, <<"NL">>)), FALSE, c1)
    ELSE IF line \in {<<"debug>">>, <<"octave>">>}
      THEN
        LET b == InteractBridge(k, c1, line \o <<"SP">>) IN
        IF b.exc = "Oct2PyError" THEN Diagnostic(b.site, NeedPexpectMsg, FALSE, b.c)
        ELSE IF b.exc # "none" THEN Stop(b.exc, b.c)
        ELSE
          \* write('clear _\n'); resp = resp[:-4]; expect('\n')
          LET c2 == [b.c EXCEPT !.resp = DropLast4(@), !.conts = Append(@, b.cont),
                                !.sent = Append(@, ClearScratch)]
              m == Expect(c2.st, {<<"NL">>})
          IN
          IF m = 0 THEN Stop(Exhausted(k), [c2 EXCEPT !.st = <<>>])
          ELSE
            LET c3 == [c2 EXCEPT !.st = Drop(@, m)] IN
            IF ~b.cont THEN Outcome("none", 0, <<>>, <<>>, TRUE, FALSE, c3)
            ELSE LineLoop(k, c3)
    ELSE IF InText("SE", line)
      THEN LineLoop(k, [c1 EXCEPT !.se = TRUE, !.resp = AppendLine(@, line)])
    ELSE IF c1.se /\ InText("CARET", line)
      THEN HandleSyntaxError(k, c1, Concat(Append(c1.resp, line)))
    ELSE LineLoop(k, [c1 EXCEPT !.resp = AppendLine(@, line)])

\* ------------------------------------------------ evaluate: the first scan
RECURSIVE UntilCaret(_, _, _)
UntilCaret(k, c, resp) ==
  IF InText("CARET", resp) THEN HandleSyntaxError(k, c, resp)
  ELSE
    LET n == Expect(c.st, {<<"NL">>}) IN
    IF n = 0 THEN Stop(Exhausted(k), [c EXCEPT !.st = <<>>])
    ELSE UntilCaret(k, [c EXCEPT !.st = Drop(@, n)], resp \o SubSeq(c.st, 1, n))

FirstScanTargets == {ETX, SyntaxErrorText}

ReadResponse(k, c) ==
  LET n == Expect(c.st, FirstScanTargets) IN
  IF n = 0 THEN Stop(Exhausted(k), [c EXCEPT !.st = <<>>])
  ELSE
    LET got == SubSeq(c.st, 1, n)
        c1 == [c EXCEPT !.st = Drop(@, n)]
    IN
    IF EndsWith(got, SyntaxErrorText) THEN UntilCaret(k, c1, got)
    ELSE LineLoop(k, [c1 EXCEPT !.resp = <<>>, !.se = FALSE])

\* ------------------------------------------------- evaluate: the command
\* '\n'.join(['try', 'disp(char(3))', '\n'.join(cmds), 'disp(char(3))',
\*            'catch', 'disp(lasterr())', 'disp(char(21))', 'end', ''])
Template(cmds) ==
  <<"try", "NL", "disp(char(3))", "NL">> \o Join(cmds, <<"NL">>)
    \o <<"NL", "disp(char(3))", "NL", "catch", "NL", "disp(lasterr())", "NL",
         "disp(char(21))", "NL", "end", "NL">>

MainLine(cmds) == IF Len(cmds) = 5 THEN Strip(cmds[3]) ELSE Join(cmds, <<"NL">>)

\* re.sub(pattern, ';' + name + ';', output, count=1); re.sub(pattern, ';', output)
RECURSIVE SubstRest(_)
SubstRest(text) ==
  IF text = <<>> THEN <<>>
  ELSE IF Head(text) = "KB" THEN <<";">> \o SubstRest(Tail(text))
  ELSE <<Head(text)>> \o SubstRest(Tail(text))

RECURSIVE SubstFirstOnly(_)
\* the first re.sub alone, the later keyboard calls left in
SubstFirstOnly(text) ==
  IF text = <<>> THEN <<>>
  ELSE IF Head(text) = "KB" THEN <<";", "IFILE", ";">> \o Tail(text)
  ELSE <<Head(text)>> \o SubstFirstOnly(Tail(text))

RECURSIVE SubstKeyboard(_)
SubstKeyboard(text) ==
  IF text = <<>> THEN <<>>
  ELSE IF Head(text) = "KB" THEN <<";", "IFILE", ";">> \o SubstRest(Tail(text))
  ELSE <<Head(text)>> \o SubstKeyboard(Tail(text))

\* ------------------------------------------------------------- the engine
\* The engine is the environment.  It answers one written template with one
\* response: the first end-marker, the command's output, and then the second
\* end-marker, or the text of lasterr() and the error-marker; a template it
\* cannot parse is answered with the parse error alone.  Each keyboard call it
\* reaches stops it at a prompt until a continue or quit line is written.
Lines(ls, eol) == Concat([i \in 1..Len(ls) |-> ls[i] \o eol])

ParseErrorLines(echo) ==
  << <<"parse error:">>, <<>>, <<"SP", "SP", "SE">>, <<>>,
     <<">>>", "SP">> \o echo, <<"SP", "SP", "CARET">>, <<>> >>

\* the prompts of the keyboard calls in the text the engine was sent:
\* __oct2py_interact.m holds keyboard("octave> "), a bare keyboard prompts debug>
RECURSIVE Breakpoints(_)
Breakpoints(written) ==
  IF written = <<>> THEN <<>>
  ELSE IF Head(written) = "IFILE" THEN <<OctavePrompt>> \o Breakpoints(Tail(written))
  ELSE IF Head(written) = "KB" THEN <<DebugPrompt>> \o Breakpoints(Tail(written))
  ELSE Breakpoints(Tail(written))

AfterBreak == << <<"t2">> >>

EngineRespond(written, eff, eol) ==
  LET bps == Breakpoints(written)
      nb == Len(bps)
  IN
  CASE eff.kind = "ok" ->
         IF nb = 0
           THEN [head |-> ETX \o eol \o Lines(eff.body, eol) \o ETX \o eol, later |-> <<>>]
         ELSE [head |-> ETX \o eol \o Lines(eff.body, eol) \o bps[1],
               later |-> [i \in 1..nb |->
                            IF i < nb THEN bps[i + 1]
                            ELSE Lines(AfterBreak, eol) \o ETX \o eol]]
    [] eff.kind = "err" ->
         [head |-> ETX \o eol \o Lines(eff.body, eol) \o Lines(<< <<"error:", "SP", "e">> >>, eol)
                     \o NAK \o eol,
          later |-> <<>>]
    [] eff.kind = "errsyn" ->
         [head |-> ETX \o eol \o Lines(eff.body, eol) \o Lines(ParseErrorLines(eff.echo), eol)
                     \o NAK \o eol,
          later |-> <<>>]
    [] eff.kind = "parse" ->
         [head |-> Lines(ParseErrorLines(eff.echo), eol), later |-> <<>>]
    [] OTHER -> [head |-> ETX \o eol \o Lines(eff.body, eol), later |-> <<>>]

\* ------------------------------------------------------- read, write, close
\* read/write/expect choose the transport by the module's spawn, not by the
\* handle: on a handle of the other transport the attribute they use is not
\* the engine's stream, and what that raises depends on the build
Mismatch(g, sid) ==
  \/ g.proc[sid] = "pty" /\ ~g.spawn
  \/ g.proc[sid] = "pipe" /\ g.spawn

MismatchErrors == {"AttributeError", "IOError", "TypeError"}

\* a write to an engine that is gone fails, or is buffered and lost
DeadWriteOutcomes == {"none", "IOError"}

\* the outcomes to choose among in a state: the choice matters only where a
\* handle of the other transport, or an engine that is gone, can be written to
MX(g) == IF \E s \in Sessions : Mismatch(g, s) THEN MismatchErrors ELSE {"none"}

WX(g) ==
  IF \E s \in Sessions : g.proc[s] \in {"pty", "pipe"} /\ ~g.live[s]
    THEN DeadWriteOutcomes ELSE {"none"}

WriteExc(g, sid, mx, wx) ==
  IF g.proc[sid] = "none" THEN "AttributeError"
  ELSE IF Mismatch(g, sid) THEN mx
  ELSE IF ~g.live[sid] THEN wx
  ELSE "none"

\* IOError is OSError (Python 3)
Caught(exc, classes) ==
  \/ exc \in classes
  \/ exc \in {"IOError", "OSError"} /\ classes \cap {"IOError", "OSError"} # {}

CloseWriteCaught == {"IOError", "AttributeError"}

CloseTerminateCaught == {"OSError", "AttributeError"}

\* close without self.proc = None
SessionCloseMutKeepHandle(g, sid, mx, wx) ==
  [exc |-> "none", g |-> [g EXCEPT !.live[sid] = FALSE]]

SessionClose(g, sid, mx, wx) ==
  LET w == WriteExc(g, sid, mx, wx) IN
  IF w # "none" /\ ~Caught(w, CloseWriteCaught) THEN [exc |-> w, g |-> g]
  ELSE
    LET t == IF g.proc[sid] = "none" THEN "AttributeError" ELSE "none" IN
    IF t # "none" /\ ~Caught(t, CloseTerminateCaught) THEN [exc |-> t, g |-> g]
    ELSE [exc |-> "none", g |-> [g EXCEPT !.live[sid] = FALSE, !.proc[sid] = "none"]]

\* ------------------------------------------- the MAT files (matwrite, matread)
\* The writer and the reader are outside this file.  By their contract a value
\* written to a file, loaded, saved and read back is the value again.
Encode(v) == <<"mat", v>>

Decode(m) == m[2]

LoadLine(name) == <<"load", "SP", name>>

SaveLine(names) == <<"save">> \o Concat([i \in 1..Len(names) |-> <<"SP", names[i]>>])

Has(file, name) == \E i \in 1..Len(file) : file[i][1] = name

Lookup(file, name) == file[CHOOSE i \in 1..Len(file) : file[i][1] = name][2]

\* extract_file(argout_list): data[arg] of each arg, KeyError when one is not there
ExtractFile(file, names) ==
  IF \E i \in 1..Len(names) : ~Has(file, names[i])
    THEN [exc |-> "KeyError", val |-> <<>>]
  ELSE [exc |-> "none", val |-> [i \in 1..Len(names) |-> Decode(Lookup(file, names[i]))]]

\* ---------------------------------------------------- the engine's workspace
\* a variable holds a value in the engine's representation, or is not defined
Undefined == <<"undef">>

\* upd: the assignments a command makes when the engine runs it, in order
RECURSIVE Updated(_, _)
Updated(w, upd) ==
  IF upd = <<>> THEN w
  ELSE Updated([w EXCEPT ![Head(upd)[1]] = Head(upd)[2]], Tail(upd))

\* save: the variables among names the workspace defines, with their values
RECURSIVE Saved(_, _)
Saved(w, names) ==
  IF names = <<>> THEN <<>>
  ELSE (IF w[Head(names)] = Undefined THEN <<>> ELSE << <<Head(names), w[Head(names)]>> >>)
         \o Saved(w, Tail(names))

Effect(kind, body, echo, ops, upd, saves) ==
  [kind |-> kind, body |-> body, echo |-> echo, ops |-> ops, upd |-> upd, saves |-> saves]

Quiet == Effect("ok", <<>>, <<>>, <<>>, <<>>, <<>>)

\* ---------------------------------------------------------------- evaluate
EOL(g, sid) == IF g.proc[sid] = "pty" \/ g.nt THEN <<"CR", "NL">> ELSE <<"NL">>

NoRead == [st |-> <<>>, awaits |-> 0, conts |-> <<>>, sent |-> <<>>]

\* the engine's state and the stream once the response was read; ran: the
\* engine received the command and ran it to its end
AfterRead(g, eff, ran, r) ==
  [g EXCEPT !.stream = r.st,
            !.ws = IF ran THEN Updated(@, eff.upd) ELSE @,
            !.out = IF ran /\ eff.saves # <<>>
                      THEN Saved(Updated(g.ws, eff.upd), eff.saves) ELSE @]

\* handle_syntax_error's self.close()
CloseAfter(g1, sid, r, mx, wx) ==
  IF r.closes THEN SessionClose(g1, sid, mx, wx) ELSE [exc |-> "none", g |-> g1]

Ended(r, cl) ==
  [g |-> cl.g, io |-> TRUE, r |-> IF cl.exc # "none" THEN Stop(cl.exc, r) ELSE r]

Answered(g, sid, eff, ran, r, mx, wx) ==
  Ended(r, CloseAfter(AfterRead(g, eff, ran, r), sid, r, mx, wx))

\* evaluate from self.expect(['\x03', 'syntax error']) on; er: what the engine emits
Written(g, sid, er, main_line, eff, mx, wx) ==
  Answered(g, sid, eff, g.live[sid] /\ eff.kind = "ok",
           ReadResponse([sp |-> g.spawn, nt |-> g.nt, alive |-> g.live[sid],
                         main |-> main_line, eol |-> EOL(g, sid)],
                        [st |-> g.stream \o (IF g.live[sid] THEN er.head ELSE <<>>),
                         later |-> IF g.live[sid] THEN er.later ELSE <<>>,
                         ops |-> eff.ops, resp |-> <<>>, se |-> FALSE,
                         awaits |-> 0, conts |-> <<>>, sent |-> <<>>]),
           mx, wx)

\* evaluate from self.write(output) on
EvalPlain(g, sid, written, main_line, eff, mx, wx) ==
  IF WriteExc(g, sid, mx, wx) # "none"
    THEN [g |-> g, io |-> TRUE,
          r |-> Stop(WriteExc(g, sid, mx, wx), [NoRead EXCEPT !.st = g.stream])]
  ELSE Written(g, sid, EngineRespond(written, eff, EOL(g, sid)), main_line, eff, mx, wx)

\* get_pwd: the engine answers 'pwd' with 'ans = <directory>'
PwdEffect ==
  Effect("ok", << <<"ans = ", "/d">> >>, <<>>, <<>>, << <<"ans", Encode("/d")>> >>, <<>>)

\* if keyboard: os.remove(self.interaction_file), reached by the normal return only
FileRemoved(q) ==
  IF q.r.exc = "none" /\ ~q.r.none THEN [q EXCEPT !.g.ifile = FALSE] ELSE q

\* _make_interaction_file('octave> ') after get_pwd() gave p, then the
\* command with its keyboard calls replaced
AfterPwd(p, sid, output, main_line, eff, mx, wx) ==
  IF p.r.exc # "none" THEN p
  ELSE IF p.r.ret = <<>> THEN [p EXCEPT !.r = Stop("IndexError", p.r)]
  ELSE FileRemoved(EvalPlain([p.g EXCEPT !.ifile = TRUE], sid, SubstKeyboard(output),
                             main_line, eff, mx, wx))

Evaluate(g, sid, cmds, eff, mx, wx) ==
  IF g.proc[sid] = "none"
    THEN [g |-> g, io |-> FALSE, r |-> Diagnostic(542, SessionClosedMsg, FALSE, NoRead)]
  ELSE IF ~InText("KB", Template(cmds))
    THEN EvalPlain(g, sid, Template(cmds), MainLine(cmds), eff, mx, wx)
  ELSE AfterPwd(EvalPlain(g, sid, Template(<< <<"pwd">> >>), <<"pwd">>, PwdEffect, mx, wx),
                sid, Template(cmds), MainLine(cmds), eff, mx, wx)

\* ------------------------------------------------------------------ state
VARIABLES
  spawn,      \* the module's spawn: TRUE pexpect's spawn, FALSE None
  nt,         \* os.name == 'nt'
  session,    \* Oct2Py._session: a _Session, or NoSession for None
  proc,       \* _Session.proc of each _Session: "unborn" (not created yet),
              \* "pty" or "pipe" (the handle start() returned), "none" (None)
  live,       \* whether the engine process a _Session started is running
  stream,     \* engine output of the current _Session not yet read
  ws,         \* the workspace of the current _Session's engine
  ifile,      \* whether __oct2py_interact.m exists
  first_run,  \* Oct2Py._first_run
  puts,       \* per name, the value of the latest put still standing
  nops,       \* operations performed so far
  last,       \* the last operation and how it ended
  attempts,   \* the transports the latest start() tried, in order
  inwith,     \* whether the host program is inside a with-block on the Oct2Py
  exited,     \* whether the host program's exit hooks have run
  thread      \* a second thread of the host program inside evaluate

vars == <<spawn, nt, session, proc, live, stream, ws, ifile, first_run, puts, nops, last,
          attempts, inwith, exited, thread>>

\* what an operation called from the main program, outside a with statement
\* and before exit, leaves alone
host == <<inwith, exited, thread>>

G == [spawn |-> spawn, nt |-> nt, proc |-> proc, live |-> live, stream |-> stream,
      ws |-> ws, out |-> <<>>, ifile |-> ifile]

Commit(g) ==
  /\ spawn' = g.spawn
  /\ nt' = g.nt
  /\ proc' = g.proc
  /\ live' = g.live
  /\ stream' = g.stream
  /\ ws' = g.ws
  /\ ifile' = g.ifile

\* the names of engine variables, and the values the host program puts
Names == {"y", "ans", "_", "a__"}

PutNames == {"y", "ans", "_x"}

PutValues == {"v1", "v2"}

EmptyWs == [n \in Names |-> Undefined]

NoPuts == [n \in PutNames |-> "none"]

NoCmd == [cmds |-> <<>>, kind |-> "", body |-> <<>>, ops |-> <<>>]

\* what last keeps of an operation: the operation, the _Session it found, that
\* _Session's handle and the module's spawn before it, whether the stream held
\* no marker then, where the operation before it raised, and how it ended
Kept(op, sid, pre, prespawn, insync, prev, what, x) ==
  [op |-> op, sid |-> sid, pre |-> pre, prespawn |-> prespawn, insync |-> insync,
   prev |-> prev,
   cmds |-> what.cmds, kind |-> what.kind, body |-> what.body, ops |-> what.ops,
   exc |-> x.r.exc, site |-> x.r.site, msg |-> x.r.msg, ret |-> x.r.ret,
   none |-> x.r.none, io |-> x.io, awaits |-> x.r.awaits, conts |-> x.r.conts,
   sent |-> x.r.sent, val |-> x.r.val, steps |-> x.r.steps]

InSync(st) == ~InText("ETX", st) /\ ~InText("SE", st)

Record(op, what, x) ==
  Kept(op, session, IF session = NoSession THEN "none" ELSE proc[session], spawn,
       InSync(stream), last.site, what, x)

Plain(exc, site, msg, io) ==
  [io |-> io, r |-> Outcome(exc, site, msg, <<>>, FALSE, FALSE, NoRead)]

\* an operation that raises before it uses the transport
Raised(g, exc, site, msg) ==
  [g |-> g, io |-> FALSE, r |-> Outcome(exc, site, msg, <<>>, FALSE, FALSE, NoRead)]

Hung == last.exc = "hang"

\* no second thread is inside evaluate, and no close is under way
\* pc: where the second thread is; s: the _Session it is in; ph: which expect
\* it is at; exc: how its evaluate ended; cl: where a close by the main thread
\* is; at: where the second thread was when that close began
Idle == [pc |-> "idle", s |-> NoSession, ph |-> "first", exc |-> "none",
         cl |-> "idle", at |-> "idle"]

\* the host program goes on to its next operation
Ready == ~Hung /\ ~exited /\ nops < MaxOps

Counted == nops' = nops + 1

\* ------------------------------------------------------------------ start
\* _Session.start: the handle it returns, and the module's spawn after it
\* start() without spawn = None after the pseudo-terminal failed
StartMutKeepSpawn(sp, ptyok, pipeok) ==
  IF sp /\ ptyok THEN [handle |-> "pty", spawn |-> TRUE, tried |-> <<"pty">>]
  ELSE IF pipeok
    THEN [handle |-> "pipe", spawn |-> sp,
          tried |-> IF sp THEN <<"pty", "pipe">> ELSE <<"pipe">>]
  ELSE [handle |-> "none", spawn |-> sp,
        tried |-> IF sp THEN <<"pty", "pipe">> ELSE <<"pipe">>]

Start(sp, ptyok, pipeok) ==
  IF sp /\ ptyok THEN [handle |-> "pty", spawn |-> TRUE, tried |-> <<"pty">>]
  ELSE IF pipeok
    THEN [handle |-> "pipe", spawn |-> FALSE,
          tried |-> IF sp THEN <<"pty", "pipe">> ELSE <<"pipe">>]
  ELSE [handle |-> "none", spawn |-> FALSE,
        tried |-> IF sp THEN <<"pty", "pipe">> ELSE <<"pipe">>]

Unborn == {s \in Sessions : proc[s] = "unborn"}

\* ------------------------------------------------------------------- Init
\* Oct2Py(): pexpect was imported or not (never on Windows), and restart()
\* started the first _Session
Init ==
  \E imported \in BOOLEAN, windows \in BOOLEAN, ptyok \in BOOLEAN :
    /\ windows => ~imported
    /\ LET s == Start(imported, ptyok, TRUE) IN
       /\ spawn = s.spawn
       /\ attempts = s.tried
       /\ proc = [i \in Sessions |-> IF i = 1 THEN s.handle ELSE "unborn"]
    /\ nt = windows
    /\ session = 1
    /\ live = [i \in Sessions |-> i = 1]
    /\ stream = <<>>
    /\ ws = EmptyWs
    /\ nops = 0
    /\ ifile = FALSE
    /\ first_run = TRUE
    /\ puts = NoPuts
    /\ inwith = FALSE
    /\ exited = FALSE
    /\ thread = Idle
    /\ last = Kept("init", NoSession, "none", imported, TRUE, 0, NoCmd,
                   Plain("none", 0, <<>>, FALSE))

\* ---------------------------------------------------------------- restart
\* self._session = _Session() and the lines after it, called by op
Restarted(op) ==
  /\ Unborn # {}
  /\ \E ptyok \in BOOLEAN, pipeok \in BOOLEAN :
       LET n == CHOOSE i \in Unborn : \A j \in Unborn : i <= j
           s == Start(spawn, ptyok, pipeok)
       IN
       /\ spawn' = s.spawn
       /\ attempts' = s.tried
       /\ IF s.handle = "none"
            THEN /\ last' = Record(op, NoCmd,
                                   Plain("Oct2PyError", 534, <<"Please install GNU Octave">>, FALSE))
                 /\ UNCHANGED <<session, proc, live, stream, ws, first_run, puts>>
            ELSE /\ session' = n
                 /\ proc' = [proc EXCEPT ![n] = s.handle]
                 /\ live' = [live EXCEPT ![n] = TRUE]
                 /\ stream' = <<>>
                 /\ ws' = EmptyWs
                 /\ first_run' = TRUE
                 /\ puts' = NoPuts
                 /\ last' = Record(op, NoCmd, Plain("none", 0, <<>>, FALSE))
       /\ UNCHANGED <<nt, ifile>>

Restart ==
  /\ Ready
  /\ Counted
  /\ Restarted("restart")
  /\ UNCHANGED host

\* ------------------------------------------------------------------ close
\* Oct2Py.close
Closed(op) ==
  \E mx \in MX(G), wx \in WX(G) :
       LET c == IF session # NoSession THEN SessionClose(G, session, mx, wx)
                ELSE [exc |-> "none", g |-> G]
       IN
       /\ Commit(c.g)
       /\ session' = IF c.exc = "none" THEN NoSession ELSE session
       /\ last' = Record(op, NoCmd, Plain(c.exc, 0, <<>>, session # NoSession))
       /\ UNCHANGED <<first_run, puts, attempts>>

Close ==
  /\ Ready
  /\ Counted
  /\ Closed("close")
  /\ UNCHANGED host

\* ------------------------------------------------- __enter__ and __exit__
\* if not self._session: self.restart()
Enter ==
  /\ Ready
  /\ Counted
  /\ ~inwith
  /\ IF session = NoSession
       THEN /\ Restarted("enter")
            /\ inwith' = (last'.exc = "none")
       ELSE /\ last' = Record("enter", NoCmd, Plain("none", 0, <<>>, FALSE))
            /\ inwith' = TRUE
            /\ UNCHANGED <<spawn, nt, session, proc, live, stream, ws, ifile, first_run,
                           puts, attempts>>
  /\ UNCHANGED <<exited, thread>>

\* self.close(), at the end of the block or on an exception raised in it
Leave ==
  /\ Ready
  /\ Counted
  /\ inwith
  /\ Closed("exit")
  /\ inwith' = FALSE
  /\ UNCHANGED <<exited, thread>>

\* ------------------------------------------------ the process-exit hooks
\* atexit.register(self.close) in _Session.__init__, reached when start()
\* returned a handle: at exit the hooks run last registered first, and a hook
\* that raises does not keep the others from running
RECURSIVE RunHooks(_, _, _, _)
Hooked(c, n, r) ==
  [g |-> r.g, exc |-> IF c.exc # "none" THEN c.exc ELSE r.exc]

AfterHook(c, n, mxs, wxs) == Hooked(c, n, RunHooks(c.g, n - 1, mxs, wxs))

RunHooks(g, n, mxs, wxs) ==
  IF n = 0 THEN [g |-> g, exc |-> "none"]
  ELSE IF g.proc[n] = "unborn" THEN RunHooks(g, n - 1, mxs, wxs)
  ELSE AfterHook(SessionClose(g, n, mxs[n], wxs[n]), n, mxs, wxs)

AtExit ==
  /\ ~Hung
  /\ ~exited
  /\ exited' = TRUE
  /\ \E mxs \in [Sessions -> MX(G)], wxs \in [Sessions -> WX(G)] :
       /\ Commit(RunHooks(G, MaxSessions, mxs, wxs).g)
       /\ last' = Record("atexit", NoCmd,
                         Plain(RunHooks(G, MaxSessions, mxs, wxs).exc, 0, <<>>, TRUE))
  /\ UNCHANGED <<session, first_run, puts, nops, attempts, inwith, thread>>

\* the engine process ends by itself
EngineExits ==
  /\ ~Hung
  /\ session # NoSession
  /\ live[session]
  /\ live' = [live EXCEPT ![session] = FALSE]
  /\ UNCHANGED <<spawn, nt, session, proc, stream, ws, ifile, first_run, puts, nops, last,
                 attempts, host>>

\* ------------------------------------------------------------ Oct2Py._eval
EvalCmd(g, cmds, eff, mx, wx) ==
  IF session = NoSession
    THEN [g |-> g, io |-> FALSE, r |-> Diagnostic(353, NoSessionMsg, FALSE, NoRead)]
  ELSE Evaluate(g, session, cmds, eff, mx, wx)

\* an earlier step's transport use counts for the whole operation
After(a, b) == [b EXCEPT !.io = a.io \/ b.io]

Skipped(g) == [g |-> g, io |-> FALSE, r |-> Stop("none", NoRead)]

\* ------------------------------------------------------------- Oct2Py.call
PreCall == <<"NL", "global __oct2py_figures = [];", "NL">>

PostCallFigures == <<"NL", "for f = __oct2py_figures", "NL", "refresh(f);", "NL", "end">>

SetupScript == <<"global __oct2py_figures = [];", "NL", "page_screen_output(0);", "NL",
                 "set(0, 'DefaultFigureCreateFcn', @fig_create);">>

\* cmd = [load_line, pre_call, call_line, post_call, save_line]
Bundle(load_line, call_line, post_call, save_line) ==
  <<load_line, PreCall, call_line, post_call, save_line>>

\* _set_graphics_toolkit, which call() runs first when _first_run is set
\* a: how the _eval under try / except Oct2PyError: pass ended
ThenSetup(a, mx, wx) ==
  IF a.r.exc \notin {"none", "Oct2PyError"} THEN a
  ELSE After(a, EvalCmd(a.g, Bundle(<<>>, SetupScript, <<>>, <<>>), Quiet, mx, wx))

SetGraphicsToolkit(g, mx, wx) ==
  ThenSetup(EvalCmd(g, << <<"graphics_toolkit('gnuplot')">> >>, Quiet, mx, wx), mx, wx)

\* if self._first_run: self._set_graphics_toolkit()
FirstRun(g, fr, mx, wx) == IF fr THEN SetGraphicsToolkit(g, mx, wx) ELSE Skipped(g)

\* resp = self._eval(cmd) once the first-run step ended as pre
ThenEval(pre, cmd, eff, mx, wx) ==
  IF pre.r.exc # "none" THEN pre
  ELSE After(pre, EvalCmd(pre.g, cmd, eff, mx, wx))

\* call(func, nout=0): run(script), lookfor(string)
CallScript(g, fr, script, eff, mx, wx) ==
  ThenEval(FirstRun(g, fr, mx, wx), Bundle(<<>>, script, PostCallFigures, <<>>), eff, mx, wx)

\* ------------------------------------------------- scripts and their effects
OpLines == {"dbcont", "return", "exit", "dbquit", "x"}

RECURSIVE SeqsUpTo(_, _)
SeqsUpTo(S, n) ==
  IF n = 0 THEN {<<>>}
  ELSE LET shorter == SeqsUpTo(S, n - 1) IN
       shorter \cup {Append(q, x) : q \in {t \in shorter : Len(t) = n - 1}, x \in S}

\* the operator types until a line leaves the prompt, or stops typing before
LeavesPrompt == {"dbcont", "return", "exit", "dbquit"}

OpScripts ==
  {o \in SeqsUpTo(OpLines, MaxOpLines) :
     \A i \in 1..(Len(o) - 1) : o[i] \notin LeavesPrompt}

Scripts == {"disp", "pad", "two", "kb1", "kb2"}

DataScripts == {"bad", "asg", "clr"}

\* a script that prints lines of text and ends without an error
TextScripts == {"txt"}

ScriptText(sc) ==
  CASE sc = "disp" -> <<"t1">>
    [] sc = "pad" -> <<"SP", "t1", "SP">>
    [] sc = "two" -> <<"t1", "NL", "t3", "(">>
    [] sc = "kb1" -> <<"KB">>
    [] sc = "kb2" -> <<"t1", ";", "KB", ";", "KB">>
    [] sc = "bad" -> <<"t1", "(">>
    [] sc = "asg" -> <<"y", "=", "v2">>
    [] sc = "clr" -> <<"clear", "SP", "y">>
    [] sc = "txt" -> <<"t4">>

Bodies ==
  { <<>>,
    << <<"t1">> >>,
    << <<>>, <<"t1">>, <<>>, <<"t2", "SP">> >> }

\* what a script may print: lines that hold the words 'syntax error', a caret,
\* both, or neither
TextBodies ==
  { << <<"t1">>, <<"t2">> >>,
    << <<"t1", "SP", "SE">> >>,
    << <<"t1", "CARET", "t2">> >>,
    << <<"CARET">>, <<"SE">> >>,
    << <<"SE">>, <<"CARET">> >>,
    << <<"t1">>, <<"SE", "SP", "t2">>, <<"t3">>, <<"t2", "CARET">> >> }

LongBody == << <<"l1">>, <<"l2">>, <<"l3">>, <<"l4">>, <<"l5">> >>

\* what the engine may do with a script
ScriptEffects(sc) ==
  CASE sc = "disp" ->
         {Effect("ok", b, <<>>, <<>>, <<>>, <<>>) : b \in Bodies}
           \cup {Effect(kd, << <<"t1">> >>, ScriptText(sc), <<>>, <<>>, <<>>) :
                   kd \in {"err", "errsyn", "parse", "busy"}}
    [] sc = "pad" ->
         {Effect(kd, << <<"t1">> >>, Strip(ScriptText(sc)), <<>>, <<>>, <<>>) :
            kd \in {"ok", "parse", "errsyn"}}
    [] sc = "two" ->
         \* the report echoes the line the parser stopped in
         {Effect("parse", <<>>, <<"t3", "(">>, <<>>, <<>>, <<>>)}
    [] sc = "kb1" ->
         {Effect("ok", LongBody, <<>>, o, <<>>, <<>>) : o \in OpScripts}
           \cup {Effect("ok", <<>>, <<>>, <<"dbcont">>, <<>>, <<>>),
                 Effect("err", <<>>, <<>>, <<>>, <<>>, <<>>)}
    [] sc = "kb2" ->
         {Effect("ok", <<>>, <<>>, o, <<>>, <<>>) : o \in {<<"return">>, <<"x", "exit">>, <<"dbquit">>}}
    [] sc = "bad" ->
         {Effect("parse", <<>>, ScriptText(sc), <<>>, <<>>, <<>>)}
    [] sc = "asg" ->
         {Effect("ok", << <<"y = v2">> >>, <<>>, <<>>, << <<"y", Encode("v2")>> >>, <<>>)}
    [] sc = "clr" ->
         {Effect("ok", <<>>, <<>>, <<>>, << <<"y", Undefined>> >>, <<>>)}
    [] sc = "txt" ->
         {Effect("ok", b, <<>>, <<>>, <<>>, <<>>) : b \in TextBodies}

\* a put stands until a command changes the variable
Standing(w2) ==
  [n \in DOMAIN puts |-> IF n \in Names /\ w2[n] # ws[n] THEN "none" ELSE puts[n]]

What(cmds, eff) == [cmds |-> cmds, kind |-> eff.kind, body |-> eff.body, ops |-> eff.ops]

\* an operation ended as x
Done(op, what, x) ==
  /\ Commit(x.g)
  /\ puts' = Standing(x.g.ws)
  /\ last' = Record(op, what, x)

\* -------------------------------------------------------------- Oct2Py.run
RunOf(scs) ==
  /\ Ready
  /\ Counted
  /\ \E sc \in scs, mx \in MX(G), wx \in WX(G) :
       \E eff \in ScriptEffects(sc) :
         /\ Done("run", What(Bundle(<<>>, ScriptText(sc), PostCallFigures, <<>>), eff),
                 CallScript(G, first_run, ScriptText(sc), eff, mx, wx))
         /\ first_run' = FALSE
         /\ UNCHANGED <<session, attempts, host>>

\* ----------------------------------------------------------- Oct2Py.lookfor
LookforText == <<"lookfor -all", "SP", "s">>

LookforEffect(b) == Effect("ok", b, <<>>, <<>>, <<>>, <<>>)

Lookfor ==
  /\ Ready
  /\ Counted
  /\ \E b \in {<<>>, << <<"t1">> >>}, mx \in MX(G), wx \in WX(G) :
       /\ Done("lookfor",
               What(Bundle(<<>>, LookforText, PostCallFigures, <<>>), LookforEffect(b)),
               CallScript(G, first_run, LookforText, LookforEffect(b), mx, wx))
       /\ first_run' = FALSE
       /\ UNCHANGED <<session, attempts, host>>

\* -------------------------------------------------------------- Oct2Py.put
Underscored == {"_", "_x"}

LoadEffect(n, v) == Effect("ok", <<>>, <<>>, <<>>, << <<n, Encode(v)>> >>, <<>>)

PutValue(g, n, v, mx, wx) ==
  IF n \in Underscored THEN Raised(g, "Oct2PyError", 262, <<"Invalid name", "SP", n>>)
  ELSE EvalCmd(g, << LoadLine(n) >>, LoadEffect(n, v), mx, wx)

\* a put that returned stands for its name
PutDone(n, v, x) ==
  /\ Commit(x.g)
  /\ puts' = IF x.r.exc = "none" THEN [Standing(x.g.ws) EXCEPT ![n] = v]
             ELSE Standing(x.g.ws)
  /\ last' = [Record("put", What(<< LoadLine(n) >>, LoadEffect(n, v)), x) EXCEPT
                !.val = <<v>>]

Put ==
  /\ Ready
  /\ Counted
  /\ \E n \in PutNames, v \in PutValues, mx \in MX(G), wx \in WX(G) :
       /\ PutDone(n, v, PutValue(G, n, v, mx, wx))
       /\ UNCHANGED <<session, first_run, attempts, host>>

\* -------------------------------------------------------------- Oct2Py.get
\* the engine answers 'exist <name>' with 'ans = <n>', which assigns ans
ExistEffect(w, v) ==
  IF w[v] = Undefined
    THEN Effect("ok", << <<"ans = 0">> >>, <<>>, <<>>, << <<"ans", Encode("0")>> >>, <<>>)
  ELSE Effect("ok", << <<"ans = 1">> >>, <<>>, <<>>, << <<"ans", Encode("1")>> >>, <<>>)

ExistText(v) == <<"exist", "SP", v>>

\* for variable in var:
\*   if self._eval("exist ...") == 'ans = 0' and not variable == '_': raise
\* a: how the _eval of the probe of Head(names) ended
RECURSIVE Probe(_, _, _, _)
\* the probe without the raise
ProbedMutNoCheck(a, names, mx, wx) ==
  IF a.r.exc # "none" THEN a ELSE After(a, Probe(a.g, Tail(names), mx, wx))

Probed(a, names, mx, wx) ==
  IF a.r.exc # "none" THEN a
  ELSE IF a.r.ret = <<"ans = 0">> /\ Head(names) # "_"
    THEN [a EXCEPT !.r = Diagnostic(301, <<Head(names), "SP", "does not exist">>, FALSE, a.r)]
  ELSE After(a, Probe(a.g, Tail(names), mx, wx))

Probe(g, names, mx, wx) ==
  IF names = <<>> THEN Skipped(g)
  ELSE Probed(EvalCmd(g, << ExistText(Head(names)) >>, ExistEffect(g.ws, Head(names)), mx, wx),
              names, mx, wx)

SaveEffect(names) == Effect("ok", <<>>, <<>>, <<>>, <<>>, names)

\* return self._reader.extract_file(argout_list); sv: how the _eval of the save ended
Extracted(sv, names) ==
  IF sv.r.exc # "none" THEN [sv EXCEPT !.r.steps = <<"save">>]
  ELSE [sv EXCEPT !.r.exc = ExtractFile(sv.g.out, names).exc,
                  !.r.val = ExtractFile(sv.g.out, names).val,
                  !.r.steps = <<"save">>]

\* p: how the probes ended
ThenSave(p, names, mx, wx) ==
  IF p.r.exc # "none" THEN p
  ELSE Extracted(After(p, EvalCmd(p.g, << SaveLine(names) >>, SaveEffect(names), mx, wx)),
                 names)

GetValue(g, names, mx, wx) == ThenSave(Probe(g, names, mx, wx), names, mx, wx)

GetNames == {"y", "ans", "_"}

\* names requested in one get
MaxGet == 2

GetLists == SeqsUpTo(GetNames, MaxGet) \ {<<>>}

\* a get leaves the standing puts as they are: its probes are not the caller's
GetDone(names, x) ==
  /\ Commit(x.g)
  /\ last' = Record("get", [NoCmd EXCEPT !.cmds = names], x)

Get ==
  /\ Ready
  /\ Counted
  /\ \E names \in GetLists, mx \in MX(G), wx \in WX(G) :
       /\ GetDone(names, GetValue(G, names, mx, wx))
       /\ UNCHANGED <<session, first_run, puts, attempts, host>>

\* ------------------------------------------------- Oct2Py.call with nout = 1
CallLine == <<"[a__] = f()">>

CallCmd == Bundle(<<>>, CallLine, PostCallFigures, SaveLine(<<"a__">>))

CallEffect(kd) == Effect(kd, <<>>, <<>>, <<>>, << <<"a__", Encode("r")>> >>, <<"a__">>)

\* if nout: return self._reader.extract_file(argout_list)
Returned(c) ==
  IF c.r.exc # "none" THEN c
  ELSE [c EXCEPT !.r.exc = ExtractFile(c.g.out, <<"a__">>).exc,
                 !.r.val = ExtractFile(c.g.out, <<"a__">>).val]

CallValue(g, fr, eff, mx, wx) ==
  Returned(ThenEval(FirstRun(g, fr, mx, wx), CallCmd, eff, mx, wx))

Call ==
  /\ Ready
  /\ Counted
  /\ \E kd \in {"ok", "err"}, mx \in MX(G), wx \in WX(G) :
       /\ Done("call", What(CallCmd, CallEffect(kd)),
               CallValue(G, first_run, CallEffect(kd), mx, wx))
       /\ first_run' = FALSE
       /\ UNCHANGED <<session, attempts, host>>

\* ------------------------------------------- Oct2Py.__getattr__ and _get_doc
FnExistEffect(found) ==
  IF found
    THEN Effect("ok", << <<"ans = 2">> >>, <<>>, <<>>, << <<"ans", Encode("2")>> >>, <<>>)
  ELSE Effect("ok", << <<"ans = 0">> >>, <<>>, <<>>, << <<"ans", Encode("0")>> >>, <<>>)

DocEffect(kd) == Effect(kd, << <<"doc">> >>, <<"f">>, <<>>, <<>>, <<>>)

\* except Oct2PyError as e: pass, around the _eval of 'type <name>' that ended as t
TypeDone(t) ==
  IF t.r.exc = "Oct2PyError"
    THEN [t EXCEPT !.r = Outcome("none", 0, <<>>, <<"No documentation for", "SP", "f">>,
                                 FALSE, FALSE, t.r)]
  ELSE t

\* except Oct2PyError as e: if 'syntax error' in str(e): raise(e), around the
\* _eval of 'help <name>' that ended as h
HelpDone(h, tk, mx, wx) ==
  IF h.r.exc # "Oct2PyError" THEN h
  ELSE IF Contains(h.r.msg, SyntaxErrorText) THEN h
  ELSE TypeDone(After(h, EvalCmd(h.g, << <<"type", "SP", "f">> >>, DocEffect(tk), mx, wx)))

\* a: how the _eval of 'exist <name>' ended
ExistDone(a, hk, tk, mx, wx) ==
  IF a.r.exc # "none" THEN a
  ELSE IF a.r.ret = <<"ans = 0">>
    THEN [a EXCEPT !.r = Diagnostic(407, <<"Name:", "SP", "f", "SP", "does not exist">>,
                                    FALSE, a.r)]
  ELSE HelpDone(After(a, EvalCmd(a.g, << <<"help", "SP", "f">> >>, DocEffect(hk), mx, wx)),
                tk, mx, wx)

GetDoc(g, found, hk, tk, mx, wx) ==
  ExistDone(EvalCmd(g, << ExistText("f") >>, FnExistEffect(found), mx, wx), hk, tk, mx, wx)

GetAttr ==
  /\ Ready
  /\ Counted
  /\ \E found \in BOOLEAN, hk \in {"ok", "err"}, tk \in {"ok", "err"},
        mx \in MX(G), wx \in WX(G) :
       /\ Done("getattr", [NoCmd EXCEPT !.kind = hk], GetDoc(G, found, hk, tk, mx, wx))
       /\ UNCHANGED <<session, first_run, attempts, host>>

\* --------------------------------------- Oct2Py.interact, _Session.interact
\* what the engine prints when it runs the interaction file from the top
\* level: the prompt, and on a terminal that echoes it the prompt once more
PromptEcho == <<"e1", "e2", "e3", "e4">>

InteractBanner(echoes) ==
  IF echoes = 1 THEN OctavePrompt ELSE OctavePrompt \o PromptEcho \o OctavePrompt

\* self._find_prompt(prompt): the stream after it, <<"none">> when it runs out
FindPrompt(st, prompt) ==
  IF Expect(st, {prompt}) = 0 THEN <<"none">> ELSE Drop(st, Expect(st, {prompt}))

\* self.read(4)
Read4(st) == IF st = <<"none">> \/ Len(st) < 4 THEN <<"none">> ELSE Drop(st, 4)

\* self._find_prompt(prompt, False); self.read(4); self._find_prompt(prompt)
FindPrompts(st, prompt) ==
  IF Read4(FindPrompt(st, prompt)) = <<"none">> THEN <<"none">>
  ELSE FindPrompt(Read4(FindPrompt(st, prompt)), prompt)

\* os.remove(self.interaction_file); self._interact(prompt)
Bridged(g, b) ==
  [g |-> [g EXCEPT !.ifile = FALSE, !.stream = b.c.st], io |-> TRUE,
   r |-> Outcome(b.exc, b.site, IF b.exc = "Oct2PyError" THEN NeedPexpectMsg ELSE <<>>,
                 <<>>, FALSE, FALSE, b.c)]

\* st: the stream after the prompts, or <<"none">>
Prompted(g, k, st, ops) ==
  IF st = <<"none">>
    THEN [g |-> [g EXCEPT !.stream = <<>>], io |-> TRUE,
          r |-> Stop(ReadExhausted(k), NoRead)]
  ELSE Bridged(g, InteractBridge(k, [st |-> st, later |-> <<>>, ops |-> ops, resp |-> <<>>,
                                     se |-> FALSE, awaits |-> 0, conts |-> <<>>,
                                     sent |-> <<>>],
                                 OctavePrompt))

\* self.write('%s;\n' % name) on, with the file written
FileCalled(g, sid, ops, echoes, mx, wx) ==
  IF WriteExc(g, sid, mx, wx) # "none"
    THEN [g |-> g, io |-> TRUE, r |-> Stop(WriteExc(g, sid, mx, wx), NoRead)]
  ELSE Prompted(g, [sp |-> g.spawn, nt |-> g.nt, alive |-> g.live[sid],
                    main |-> <<>>, eol |-> EOL(g, sid)],
                FindPrompts(g.stream \o (IF g.live[sid] THEN InteractBanner(echoes) ELSE <<>>),
                            OctavePrompt),
                ops)

\* name = self._make_interaction_file(prompt) after get_pwd() gave p
FileMade(p, sid, ops, echoes, mx, wx) ==
  IF p.r.exc # "none" THEN p
  ELSE IF p.r.ret = <<>> THEN [p EXCEPT !.r = Stop("IndexError", p.r)]
  ELSE FileCalled([p.g EXCEPT !.ifile = TRUE], sid, ops, echoes, mx, wx)

SessionInteract(g, sid, ops, echoes, mx, wx) ==
  IF ~g.nt /\ ~g.spawn THEN Raised(g, "Oct2PyError", 644, NeedPexpectMsg)
  ELSE FileMade(Evaluate(g, sid, << <<"pwd">> >>, PwdEffect, mx, wx),
                sid, ops, echoes, mx, wx)

\* Oct2Py.interact: self._session.interact(prompt, banner)
OctInteract(g, ops, echoes, mx, wx) ==
  IF session = NoSession THEN Raised(g, "AttributeError", 480, <<>>)
  ELSE SessionInteract(g, session, ops, echoes, mx, wx)

Interact ==
  /\ Ready
  /\ Counted
  /\ \E ops \in {<<>>, <<"return">>, <<"x", "exit">>, <<"dbquit">>}, echoes \in 1..2,
        mx \in MX(G), wx \in WX(G) :
       /\ Done("interact", [NoCmd EXCEPT !.ops = ops], OctInteract(G, ops, echoes, mx, wx))
       /\ UNCHANGED <<session, first_run, attempts, host>>

\* ---------------------------------------------------------- specifications
\* the protocol: scripts that print, fail, do not parse or stop at a breakpoint
Run == RunOf(Scripts)

Next == Restart \/ Close \/ EngineExits \/ Run \/ Interact

Spec == Init /\ [][Next]_vars

\* the data exchange: scripts that assign, clear or do not parse
RunData == RunOf(DataScripts)

NextData ==
  Restart \/ Close \/ RunData \/ Lookfor \/ Put \/ Get \/ Call \/ GetAttr \/ Interact

SpecData == Init /\ [][NextData]_vars

\* the with statement: a block entered and left, with runs and closes in
\* and around it
NextWith == Enter \/ Leave \/ Close \/ Run

SpecWith == Init /\ [][NextWith]_vars

\* the host program from its first Oct2Py to its exit
NextExit == Restart \/ Close \/ Run \/ AtExit

SpecExit == Init /\ [][NextExit]_vars

\* ------------------------------------ close while a thread is in evaluate
\* The statements of evaluate and of close are the steps: the second thread
\* stops before its write, at each expect, and at input() in the bridge, and
\* the main thread's close runs between any two of its steps.
Inside == {"write", "read", "bridge"}

ThreadKinds == {"ok", "kb", "parse"}

\* what the engine answers the thread's template with
ThreadResponse(kind, eol) ==
  CASE kind = "ok" -> ETX \o eol \o <<"t1">> \o eol \o ETX \o eol
    [] kind = "kb" -> ETX \o eol \o DebugPrompt
    [] OTHER -> Lines(ParseErrorLines(<<"x">>), eol)

ThreadEnds(exc) == [thread EXCEPT !.pc = "ended", !.exc = exc]

\* if not self.proc: raise Oct2PyError('Session Closed, try a restart()')
ThreadEnter ==
  /\ Ready
  /\ Counted
  /\ thread.pc \in {"idle", "ended"}
  /\ session # NoSession
  /\ proc[session] # "none"
  /\ thread' = [thread EXCEPT !.pc = "write", !.s = session, !.ph = "first", !.exc = "none"]
  /\ UNCHANGED <<spawn, nt, session, proc, live, stream, ws, ifile, first_run, puts, last,
                 attempts, inwith, exited>>

\* self.write(output)
ThreadWrite ==
  /\ thread.pc = "write"
  /\ session \in {thread.s, NoSession}
  /\ \E mx \in MX(G), wx \in WX(G), kind \in ThreadKinds :
       IF WriteExc(G, thread.s, mx, wx) # "none"
         THEN /\ thread' = ThreadEnds(WriteExc(G, thread.s, mx, wx))
              /\ UNCHANGED stream
         ELSE /\ thread' = [thread EXCEPT !.pc = "read"]
              /\ stream' = IF live[thread.s]
                             THEN stream \o ThreadResponse(kind, EOL(G, thread.s))
                             ELSE stream
  /\ UNCHANGED <<spawn, nt, session, proc, live, ws, ifile, first_run, puts, nops, last,
                 attempts, inwith, exited>>

ThreadTargets(ph) ==
  IF ph = "first" THEN FirstScanTargets
  ELSE IF ph = "lines" THEN {<<"NL">>, DebugPrompt, OctavePrompt}
  ELSE {<<"NL">>}

\* the thread after an expect gave it text
ThreadGot(text, closed) ==
  CASE thread.ph = "first" ->
         IF EndsWith(text, SyntaxErrorText) THEN [thread EXCEPT !.ph = "caret"]
         ELSE [thread EXCEPT !.ph = "lines"]
    [] thread.ph = "caret" ->
         IF ~InText("CARET", text) THEN thread
         ELSE IF closed # "none" THEN ThreadEnds(closed)
         ELSE ThreadEnds("Oct2PyError")
    [] thread.ph = "after" -> [thread EXCEPT !.ph = "lines"]
    [] OTHER ->
         IF RStrip(text) = ETX THEN ThreadEnds("none")
         ELSE IF RStrip(text) = NAK THEN ThreadEnds("Oct2PyError")
         ELSE IF RStrip(text) = <<"debug>">> THEN [thread EXCEPT !.pc = "bridge"]
         ELSE thread

\* one self.expect(...) of evaluate.  With no handle, or a handle of the other
\* transport, its read raises; with nothing to read from a live engine it
\* blocks; at the end of a pseudo-terminal's output pexpect raises EOF, at the
\* end of a pipe's the loop on read() never ends
ThreadRead ==
  /\ thread.pc = "read"
  /\ session \in {thread.s, NoSession}
  /\ \E mx \in MX(G), wx \in WX(G) :
       IF proc[thread.s] = "none"
         THEN /\ thread' = ThreadEnds("AttributeError")
              /\ UNCHANGED <<proc, live, stream>>
       ELSE IF Mismatch(G, thread.s)
         THEN /\ thread' = ThreadEnds(mx)
              /\ UNCHANGED <<proc, live, stream>>
       ELSE IF Expect(stream, ThreadTargets(thread.ph)) = 0
         THEN /\ ~live[thread.s]
              /\ spawn
              /\ thread' = ThreadEnds("EOF")
              /\ stream' = <<>>
              /\ UNCHANGED <<proc, live>>
       ELSE
         LET n == Expect(stream, ThreadTargets(thread.ph))
             text == SubSeq(stream, 1, n)
             closes == thread.ph = "caret" /\ InText("CARET", text) /\ ~spawn
             c == IF closes THEN SessionClose(G, thread.s, mx, wx)
                  ELSE [exc |-> "none", g |-> G]
         IN
         /\ thread' = ThreadGot(text, c.exc)
         /\ stream' = Drop(stream, n)
         /\ proc' = c.g.proc
         /\ live' = c.g.live
  /\ UNCHANGED <<spawn, nt, session, ws, ifile, first_run, puts, nops, last,
                 attempts, inwith, exited>>

\* _interact at input(): the user continues, the line and then 'clear _' are
\* written, and evaluate goes on with self.expect('\n')
ThreadBridge ==
  /\ thread.pc = "bridge"
  /\ session \in {thread.s, NoSession}
  /\ \E mx \in MX(G), wx \in WX(G) :
       IF WriteExc(G, thread.s, mx, wx) # "none"
         THEN /\ thread' = ThreadEnds(WriteExc(G, thread.s, mx, wx))
              /\ UNCHANGED stream
         ELSE /\ thread' = [thread EXCEPT !.pc = "read", !.ph = "after"]
              /\ stream' = IF live[thread.s]
                             THEN stream \o ETX \o EOL(G, thread.s)
                                    \o Lines(AfterBreak, EOL(G, thread.s))
                                    \o ETX \o EOL(G, thread.s)
                             ELSE stream
  /\ UNCHANGED <<spawn, nt, session, proc, live, ws, ifile, first_run, puts, nops, last,
                 attempts, inwith, exited>>

\* Oct2Py.close to _Session.close's self.write('exit\n')
CloseWrite ==
  /\ Ready
  /\ Counted
  /\ thread.cl = "idle"
  /\ session # NoSession
  /\ \E mx \in MX(G), wx \in WX(G) :
       IF /\ WriteExc(G, session, mx, wx) # "none"
          /\ ~Caught(WriteExc(G, session, mx, wx), CloseWriteCaught)
         THEN /\ last' = Record("close", NoCmd,
                                Plain(WriteExc(G, session, mx, wx), 0, <<>>, TRUE))
              /\ thread' = [thread EXCEPT !.at = thread.pc]
         ELSE /\ last' = Record("closing", NoCmd, Plain("none", 0, <<>>, TRUE))
              /\ thread' = [thread EXCEPT !.cl = "terminate", !.at = thread.pc]
  /\ UNCHANGED <<spawn, nt, session, proc, live, stream, ws, ifile, first_run, puts,
                 attempts, inwith, exited>>

\* self.proc.terminate(), an AttributeError caught
CloseTerminate ==
  /\ thread.cl = "terminate"
  /\ live' = IF proc[session] = "none" THEN live ELSE [live EXCEPT ![session] = FALSE]
  /\ thread' = [thread EXCEPT !.cl = "assign"]
  /\ UNCHANGED <<spawn, nt, session, proc, stream, ws, ifile, first_run, puts, nops, last,
                 attempts, inwith, exited>>

\* self.proc = None, and Oct2Py.close's self._session = None
CloseAssign ==
  /\ thread.cl = "assign"
  /\ proc' = [proc EXCEPT ![session] = "none"]
  /\ session' = NoSession
  /\ thread' = [thread EXCEPT !.cl = "idle"]
  /\ last' = Record("close", NoCmd, Plain("none", 0, <<>>, TRUE))
  /\ UNCHANGED <<spawn, nt, live, stream, ws, ifile, first_run, puts, nops,
                 attempts, inwith, exited>>

\* restart() by the main thread, while it is not inside close
RestartBeside == thread.cl = "idle" /\ Restart

NextThreads ==
  \/ RestartBeside
  \/ ThreadEnter
  \/ ThreadWrite
  \/ ThreadRead
  \/ ThreadBridge
  \/ CloseWrite
  \/ CloseTerminate
  \/ CloseAssign

SpecThreads == Init /\ [][NextThreads]_vars

\* scripts whose output is text of any kind
RunText == RunOf(TextScripts)

NextText == Restart \/ Close \/ RunText

SpecText == Init /\ [][NextText]_vars

\* --------------------------------------- evaluate and an engine that ends
\* self.write(output) of a command that ends the engine ('exit'): the engine
\* prints the first end-marker and is gone
ThreadWriteExit ==
  /\ thread.pc = "write"
  /\ session \in {thread.s, NoSession}
  /\ \E mx \in MX(G), wx \in WX(G) :
       IF WriteExc(G, thread.s, mx, wx) # "none"
         THEN /\ thread' = ThreadEnds(WriteExc(G, thread.s, mx, wx))
              /\ UNCHANGED <<stream, live>>
         ELSE /\ thread' = [thread EXCEPT !.pc = "read"]
              /\ stream' = IF live[thread.s] THEN stream \o ETX \o EOL(G, thread.s) ELSE stream
              /\ live' = [live EXCEPT ![thread.s] = FALSE]
  /\ UNCHANGED <<spawn, nt, session, proc, ws, ifile, first_run, puts, nops, last,
                 attempts, inwith, exited>>

\* the steps of evaluate: it goes on whenever it can
ThreadAdvance == ThreadWrite \/ ThreadWriteExit \/ ThreadRead \/ ThreadBridge

NextEnds ==
  \/ ThreadEnter
  \/ ThreadWrite
  \/ ThreadWriteExit
  \/ ThreadRead
  \/ ThreadBridge
  \/ EngineExits

SpecEnds == Init /\ [][NextEnds]_vars /\ WF_vars(ThreadAdvance)

\* ------------------------------------------------------- expect on its own
\* the longest text waiting in the transport
MaxText == 4

Alphabet == {"ETX", "NL", "CR", "SE", "octave>", "debug>", "SP", "t1"}

Texts == SeqsUpTo(Alphabet, MaxText)

\* the targets evaluate and _interact call expect with
TargetSets ==
  { FirstScanTargets,
    {<<"NL">>, DebugPrompt, OctavePrompt},
    {<<"NL">>},
    {<<"ETX", "CR", "NL">>} }

NoExpect == [op |-> "init", targets |-> {}, before |-> <<>>, n |-> 0, text |-> <<>>]

InitExpect ==
  /\ stream \in Texts
  /\ spawn \in BOOLEAN
  /\ attempts = IF spawn THEN <<"pty">> ELSE <<"pipe">>
  /\ proc = [i \in Sessions |-> IF i # 1 THEN "unborn" ELSE IF spawn THEN "pty" ELSE "pipe"]
  /\ nt = FALSE
  /\ session = 1
  /\ live = [i \in Sessions |-> i = 1]
  /\ ws = EmptyWs
  /\ nops = 0
  /\ ifile = FALSE
  /\ first_run = TRUE
  /\ puts = NoPuts
  /\ inwith = FALSE
  /\ exited = FALSE
  /\ thread = Idle
  /\ last = NoExpect

\* line = self.expect(strings): the text up to the position found is returned
\* and taken from the transport; with no such position the text is read to
\* its end and expect does not return
ExpectCall ==
  /\ stream # <<>>
  /\ \E targets \in TargetSets :
       /\ last' = [op |-> "expect", targets |-> targets, before |-> stream,
                   n |-> Expect(stream, targets),
                   text |-> SubSeq(stream, 1, Expect(stream, targets))]
       /\ stream' = IF Expect(stream, targets) = 0 THEN <<>>
                    ELSE Drop(stream, Expect(stream, targets))
  /\ UNCHANGED <<spawn, nt, session, proc, live, ws, ifile, first_run, puts, nops,
                 attempts, inwith, exited, thread>>

SpecExpect == InitExpect /\ [][ExpectCall]_vars

\* ------------------------------------------------------------------ claims
\* an operation is performed in this step
Step == nops' = nops + 1

\* the protocol operations of the Oct2Py object
ProtocolOps == {"run", "call", "put", "get", "lookfor", "interact", "getattr"}

\* the raise sites of handle_syntax_error
SyntaxSites == {614, 618, 622}

\* the text the caller passed: the script of a bundle, or the single string
CommandText(cmds) == IF Len(cmds) = 5 THEN Strip(cmds[3]) ELSE Join(cmds, <<"NL">>)

\* the engine of the current _Session receives what is written and answers it,
\* and no marker of an earlier answer is left unread
Answering ==
  /\ session # NoSession
  /\ proc[session] \in {"pty", "pipe"}
  /\ live[session]
  /\ ~Mismatch(G, session)
  /\ InSync(stream)

\* C1: close() never raises and leaves the process handle of the Session
\* cleared, in whatever state the Session is when it is called.
C1_CloseNeverRaises ==
  last.op = "close" /\ last.sid # NoSession
    => last.exc = "none" /\ proc[last.sid] = "none"

\* a close of an open Session whose engine is gone returns with the handle cleared
C1_Witness ==
  /\ last.op = "close"
  /\ last.pre \in {"pty", "pipe"}
  /\ ~live[last.sid]
  /\ last.exc = "none"
  /\ proc[last.sid] = "none"

\* C2: after close() and before restart(), every protocol operation fails with
\* the Oct2PyError diagnostic and uses no transport.
C2_ClosedOperationsFail ==
  last.op \in ProtocolOps /\ last.sid = NoSession
    => last.exc = "Oct2PyError" /\ ~last.io

\* a run after close() raises 'No Octave Session' without using a transport
C2_Witness ==
  /\ last.op = "run"
  /\ last.sid = NoSession
  /\ last.exc = "Oct2PyError"
  /\ last.site = 353
  /\ ~last.io

\* C3: on the plain-pipe transport, whenever evaluate detects a syntax error,
\* at the first scan or in the line loop, the Session is closed (handle
\* cleared, process ended) when the diagnostic is raised; and every later
\* protocol operation on a Session closed that way raises the diagnostic
\* until restart() replaces the Session.
C3_Detected ==
  Step /\ session # NoSession /\ proc[session] = "pipe" /\ last'.op \in ProtocolOps
    => /\ last'.site \in SyntaxSites
           => /\ last'.site = 614
              /\ last'.exc = "Oct2PyError"
              /\ proc'[session] = "none"
              /\ ~live'[session]
       /\ Answering /\ last'.op = "run" /\ last'.kind \in {"parse", "errsyn"}
           => last'.site = 614

C3_Afterwards ==
  Step /\ session # NoSession /\ proc[session] = "none" /\ last'.op \in ProtocolOps
    => last'.exc = "Oct2PyError" /\ proc'[session] = "none"

\* C3: on the plain pipe a detected syntax error closes the Session with the
\* diagnostic, and a Session closed that way refuses every later operation.
C3_PipeSyntaxErrorCloses == [][C3_Detected /\ C3_Afterwards]_vars

\* an operation on a Session that closed itself on a syntax error is refused
C3_Witness ==
  /\ last.op \in ProtocolOps
  /\ last.prev = 614
  /\ last.pre = "none"
  /\ last.sid # NoSession
  /\ last.exc = "Oct2PyError"
  /\ last.site = 542

\* what a command printed, as the caller is to see it: its lines without their
\* trailing white space, from the first line that is not empty on, joined by
\* newlines
RECURSIVE FromFirstText(_)
FromFirstText(ls) ==
  IF ls = <<>> THEN <<>>
  ELSE IF Head(ls) = <<>> THEN FromFirstText(Tail(ls))
  ELSE ls

Printed(body) == [i \in 1..Len(body) |-> RStrip(body[i])]

OwnOutput(body) == Join(FromFirstText(Printed(body)), <<"NL">>)

\* a run of a script without a keyboard call that the engine runs to its end
PlainRun(rec) ==
  /\ rec.op = "run"
  /\ rec.kind = "ok"
  /\ ~InText("KB", rec.cmds[3])

\* C4: on the pseudo-terminal transport a syntax error raises a diagnostic and
\* leaves the Session open (handle kept, process not ended), and the command
\* that follows it on the same Session, when the engine runs it to its end
\* and no end-marker of an earlier answer is left unread in the stream,
\* returns its own output: what the failed command left unread is skipped.
C4_StaysOpen ==
  Step /\ session # NoSession /\ proc[session] = "pty" /\ last'.op \in ProtocolOps
       /\ last'.site \in SyntaxSites
    => /\ last'.exc = "Oct2PyError"
       /\ last'.site = 622
       /\ proc' = proc
       /\ live' = live

C4_NextCommand ==
  Step /\ last.op \in ProtocolOps /\ last.site \in SyntaxSites /\ last.pre = "pty"
       /\ last.sid = session /\ Answering /\ PlainRun(last')
    => /\ last'.exc = "none"
       /\ last'.ret = OwnOutput(last'.body)

\* C4: on the pseudo-terminal a syntax error leaves the Session open, and the
\* command that follows returns its own output.
C4_PtySyntaxErrorKeepsSession == [][C4_StaysOpen /\ C4_NextCommand]_vars

\* a run that printed a line returned it right after a syntax error on a terminal
C4_Witness ==
  /\ PlainRun(last)
  /\ last.insync
  /\ last.prev = 622
  /\ last.pre = "pty"
  /\ last.exc = "none"
  /\ last.ret = <<"t1">>

\* C5: for every command whose response is classified as a syntax error, on
\* either transport and for both command shapes, the message of the diagnostic
\* raised contains the text of the command.
C5_MessageHoldsCommand ==
  last.op \in ProtocolOps /\ last.site \in SyntaxSites /\ last.cmds # <<>>
    => Contains(last.msg, CommandText(last.cmds))

\* on a terminal the message of the diagnostic holds the two lines of a script
C5_Witness ==
  /\ last.op = "run"
  /\ last.site = 622
  /\ InText("NL", CommandText(last.cmds))
  /\ Contains(last.msg, CommandText(last.cmds))

\* C6 as stated: for a command that completes without engine error, evaluate
\* returns exactly the lines the engine emitted between the two end-markers
\* that are not empty, in order; no empty line is in the result.
NotEmpty(line) == line # <<>>

GetStep == Step /\ last'.op = "get"

\* the name at position i is not defined when its probe runs: any probe
\* before it has assigned ans
UndefinedAtProbe(names, i) ==
  IF names[i] = "ans" /\ i > 1 THEN FALSE ELSE ws[names[i]] = Undefined

C7_Refused ==
  GetStep /\ Answering
       /\ (\E i \in 1..Len(last'.cmds) :
             last'.cmds[i] # "_" /\ UndefinedAtProbe(last'.cmds, i))
    => /\ last'.exc = "Oct2PyError"
       /\ last'.site = 301
       /\ last'.steps = <<>>
       /\ \E i \in 1..Len(last'.cmds) :
            /\ last'.msg = <<last'.cmds[i], "SP", "does not exist">>
            /\ last'.cmds[i] # "_" /\ UndefinedAtProbe(last'.cmds, i)
            /\ \A j \in 1..(i - 1) :
                 last'.cmds[j] = "_" \/ ~UndefinedAtProbe(last'.cmds, j)

C7_Underscore ==
  GetStep /\ Answering /\ last'.cmds = <<"_">>
    => last'.site # 301 /\ last'.steps = <<"save">>

C8_GetReturnsPut ==
  last.op = "get" /\ last.exc = "none"
    => \A i \in 1..Len(last.cmds) :
         last.cmds[i] \in DOMAIN puts /\ puts[last.cmds[i]] # "none"
           => last.val[i] = puts[last.cmds[i]]

\* a get of y returned the value of the second of two puts
C8_Witness ==
  /\ last.op = "get"
  /\ last.exc = "none"
  /\ last.cmds = <<"y">>
  /\ last.prev = 0
  /\ nops = 3
  /\ puts["y"] = "v2"
  /\ last.val = <<"v2">>

\* a run of a script with a keyboard call, performed in this step
KeyboardRun == Step /\ last'.op = "run" /\ InText("KB", last'.cmds[3])

\* the transport of the current _Session can carry the Bridge
BridgeCapable == nt \/ spawn

\* the operator's lines end with a continue-equivalent line
Continues(ops) == ops # <<>> /\ ops[Len(ops)] \in {"dbcont", "return", "exit"}

\* C9 as stated: every command with a keyboard call makes the Bridge await
\* the operator exactly once during that evaluate.
C9_AwaitsExactlyOnce == [][KeyboardRun => last'.awaits = 1]_vars

\* C9: a command with one or more keyboard calls makes the Bridge await the
\* operator at most once during that evaluate, and exactly once when the
\* engine answers, reaches the breakpoint and the transport can carry the
\* Bridge (on a plain pipe evaluate raises instead, and a command that fails
\* before its breakpoint reaches no prompt); when the operator then ends with
\* a continue-equivalent line the Bridge returns to Batch with success and
\* evaluate reads on to the end of the response and returns it.
C9_AtMostOnce == KeyboardRun => last'.awaits <= 1

C9_OnceWhenReached ==
  KeyboardRun /\ Answering /\ BridgeCapable /\ last'.kind = "ok"
    => last'.awaits = 1

C9_Continued ==
  KeyboardRun /\ Answering /\ BridgeCapable /\ last'.kind = "ok" /\ Continues(last'.ops)
    => /\ last'.conts = <<TRUE>>
       /\ last'.exc = "none"
       /\ ~last'.none
       /\ EndsWith(last'.ret, <<"t2">>)
       /\ InSync(stream')

\* C9: the Bridge awaits at most once per evaluate, once when the breakpoint
\* is reached on a capable transport, and a continue line resumes the read.
C9_BridgeOncePerEvaluate == [][C9_AtMostOnce /\ C9_OnceWhenReached /\ C9_Continued]_vars

\* a script with two keyboard calls stopped once, the operator typed a line
\* and then exit, and the run returned the rest of the response
C9_Witness ==
  /\ last.op = "run"
  /\ last.cmds[3] = ScriptText("kb2")
  /\ last.ops = <<"x", "exit">>
  /\ last.sent = <<"x", "return", ClearScratch>>
  /\ last.awaits = 1
  /\ last.conts = <<TRUE>>
  /\ last.exc = "none"
  /\ last.ret = <<"t2">>

\* the current _Session is on a plain pipe of a non-Windows host
PlainPipe == session # NoSession /\ proc[session] = "pipe" /\ ~nt

\* C10: on a plain pipe of a non-Windows host the Bridge never waits for the
\* operator: interact() raises the diagnostic before it writes anything to
\* the engine or creates the scratch file, and an evaluate whose response
\* reaches a prompt raises the diagnostic instead of blocking.
C10_NeverWaits == PlainPipe /\ Step => last'.awaits = 0 /\ last'.site # 703

C10_InteractRaises ==
  PlainPipe /\ Step /\ last'.op = "interact"
    => /\ last'.exc = "Oct2PyError"
       /\ last'.site = 644
       /\ last'.msg = NeedPexpectMsg
       /\ ~last'.io
       /\ UNCHANGED <<stream, ifile, ws>>

C10_PromptRaises ==
  PlainPipe /\ KeyboardRun /\ Answering /\ last'.kind = "ok"
    => /\ last'.exc = "Oct2PyError"
       /\ last'.site = 701
       /\ last'.msg = NeedPexpectMsg
       /\ last'.sent = <<>>

\* C10: on a plain pipe of a non-Windows host the Bridge never waits:
\* interact() and a run that reaches a prompt raise the diagnostic.
C10_PipeBridgeFailsFast ==
  [][C10_NeverWaits /\ C10_InteractRaises /\ C10_PromptRaises]_vars

\* on a plain pipe a run stopped at a prompt and raised, and before it an
\* interact() was refused
C10_Witness ==
  /\ last.op = "run"
  /\ last.pre = "pipe"
  /\ ~nt
  /\ last.kind = "ok"
  /\ InText("KB", last.cmds[3])
  /\ last.site = 701
  /\ last.prev = 644
  /\ last.awaits = 0

\* the Session of the Oct2Py object can be used: it has its handle
Usable(sid, pr) == sid # NoSession /\ pr[sid] \in {"pty", "pipe"}

\* C11: a with-block is entered with a usable session, restarted when it was
\* closed explicitly or closed itself after a plain-pipe syntax error, and
\* leaving the block closes the session: it returns with the handle cleared.
C11_WithBlockLive ==
  [][/\ Step /\ last'.op = "enter" /\ last'.exc = "none"
          => inwith' /\ Usable(session', proc')
     /\ Step /\ last'.op = "exit"
          => /\ ~inwith'
             /\ last'.exc = "none"
             /\ session' = NoSession
             /\ last'.sid # NoSession => proc'[last'.sid] = "none"]_vars

\* a block was entered after an explicit close, and the session was restarted
C11_Witness ==
  /\ last.op = "enter"
  /\ last.sid = NoSession
  /\ last.exc = "none"
  /\ inwith
  /\ Usable(session, proc)
  /\ live[session]

\* the Sessions created so far: each registered its close
Created == {sid \in Sessions : proc[sid] # "unborn"}

\* C12: once the exit hooks have run no engine process started by a Session
\* is live, whether or not the caller closed that Session, and the hooks of
\* Sessions the caller had closed do not raise.
C12_NoEngineAfterExit ==
  [][~exited /\ exited'
       => /\ \A sid \in Sessions : ~live'[sid]
          /\ (\A sid \in Created : proc[sid] = "none") => last'.exc = "none"]_vars

\* the hooks ended the engines of an abandoned Session and of the current one
C12_Witness ==
  /\ exited
  /\ last.op = "atexit"
  /\ last.exc = "none"
  /\ last.sid = 2
  /\ last.pre \in {"pty", "pipe"}
  /\ \A sid \in Sessions : proc[sid] = "none" /\ ~live[sid]

\* a start() made by restart() in this step
StartStep == Step /\ last'.op = "restart"

\* the pseudo-terminal start failed in the latest start()
PtyFailed == attempts = <<"pty", "pipe">>

\* C13: start() tries the pseudo-terminal first whenever it is still enabled
\* and falls back to the plain pipe when that fails; once a pseudo-terminal
\* start has failed it is disabled, it is never enabled again, and no later
\* start tries it.
C13_FirstIfEnabled ==
  StartStep /\ spawn
    => /\ attempts'[1] = "pty"
       /\ last'.exc = "none"
            => /\ session' # session
               /\ proc'[session'] = (IF attempts' = <<"pty">> THEN "pty" ELSE "pipe")
       /\ attempts' # <<"pty">> => attempts' = <<"pty", "pipe">>

C13_NeverAgain ==
  /\ StartStep /\ ~spawn
       => attempts' = <<"pipe">> /\ (last'.exc = "none" => proc'[session'] = "pipe")
  /\ ~spawn => ~spawn'

C13_PtyFirstThenNever ==
  /\ [](PtyFailed => ~spawn)
  /\ [][C13_FirstIfEnabled /\ C13_NeverAgain]_vars

\* the first Session runs on a pseudo-terminal, a later start failed on it,
\* and the start after that tried the plain pipe alone
C13_Witness ==
  /\ last.op = "restart"
  /\ last.prev = 534
  /\ proc[1] = "pty"
  /\ attempts = <<"pipe">>
  /\ ~spawn

\* what lasterr() holds after the model's failing command
ErrorLine == <<"error:", "SP", "e">>

\* the lines the loop has collected when it reads the error-marker of a
\* command that printed body and then failed
Collected(body) == FromFirstText(Printed(Append(body, ErrorLine)))

\* C14: when the line loop reads the error-marker alone, evaluate raises a
\* diagnostic whose message holds the attempted command and, in order, every
\* line collected before the marker, and the Session stays open.
C14_Raised ==
  Step /\ last'.op = "run" /\ last'.site = 580
    => /\ last'.exc = "Oct2PyError"
       /\ session' = session
       /\ proc' = proc
       /\ live' = live

C14_Message ==
  Step /\ Answering /\ last'.op = "run" /\ last'.kind = "err"
    => /\ last'.site = 580
       /\ Contains(last'.msg, CommandText(last'.cmds))
       /\ Contains(last'.msg, Join(Collected(last'.body), <<"NL">>))
       /\ EndsWith(last'.msg, ErrorLine)

C14_ErrorMarkerDiagnostic == [][C14_Raised /\ C14_Message]_vars

\* a command printed a line and failed: the diagnostic holds the command, the
\* line and the error, and the Session is open
C14_Witness ==
  /\ last.op = "run"
  /\ last.site = 580
  /\ last.kind = "err"
  /\ last.body = << <<"t1">> >>
  /\ Contains(last.msg, <<"t1", "NL", "QQQ">>)
  /\ Contains(last.msg, <<"t1", "NL", "error:", "SP", "e">>)
  /\ Usable(session, proc)
  /\ live[session]

\* a run that stopped at its breakpoint on a transport that carries the
\* Bridge, with an engine that answers
Bridging ==
  KeyboardRun /\ Answering /\ BridgeCapable /\ last'.kind = "ok"

\* the operator's lines as the Bridge sends them
AsSent(ops) == [i \in 1..Len(ops) |-> IF ops[i] = "exit" THEN "return" ELSE ops[i]]

Aborts(ops) == ops # <<>> /\ ops[Len(ops)] = "dbquit"

\* C15: while the Bridge awaits the operator every line typed is sent to the
\* engine, exit as return; it is left with success exactly on dbcont, return
\* or exit, with abort exactly on dbquit, and not on any other line; after an
\* abort evaluate returns no result, and on both outcomes the scratch
\* variable is cleared right after the Bridge is left.
C15_Success ==
  Bridging /\ Continues(last'.ops)
    => /\ last'.conts = <<TRUE>>
       /\ last'.sent = Append(AsSent(last'.ops), ClearScratch)
       /\ last'.exc = "none"
       /\ ~last'.none

C15_Abort ==
  Bridging /\ Aborts(last'.ops)
    => /\ last'.conts = <<FALSE>>
       /\ last'.sent = Append(AsSent(last'.ops), ClearScratch)
       /\ last'.exc = "none"
       /\ last'.none
       /\ last'.ret = <<>>

C15_Stays ==
  Bridging /\ ~Continues(last'.ops) /\ ~Aborts(last'.ops)
    => /\ last'.conts = <<>>
       /\ last'.sent = AsSent(last'.ops)
       /\ last'.exc = "hang"

C15_BridgeLines == [][C15_Success /\ C15_Abort /\ C15_Stays]_vars

\* the operator typed a line, got the prompt again and typed dbquit: the run
\* returned no result and the scratch variable was cleared
C15_Witness ==
  /\ last.op = "run"
  /\ last.ops = <<"x", "dbquit">>
  /\ last.sent = <<"x", "dbquit", ClearScratch>>
  /\ last.awaits = 1
  /\ last.conts = <<FALSE>>
  /\ last.none
  /\ last.exc = "none"

\* C16: whenever a run or an interact() has finished, by returning normally,
\* by returning after the operator quit or by raising, the scratch file it
\* created has been removed.
C16_ScratchFileRemoved ==
  last.op \in {"run", "interact"} /\ last.exc # "hang" => ~ifile

\* a run stopped at its breakpoint, the operator continued, and the file was
\* removed when the run returned
C16_Witness ==
  /\ last.op = "run"
  /\ last.awaits = 1
  /\ last.conts = <<TRUE>>
  /\ last.exc = "none"
  /\ ~ifile

EndsWithTarget(text, targets) == \E t \in targets : EndsWith(text, t)

\* C17: expect returns at the first position at which the text read since the
\* call ends with one of the targets: what it returns ends with a target, no
\* shorter non-empty prefix of it does, and the text after that position is
\* still in the transport.
C17_ExpectFirstMatch ==
  last.op = "expect" /\ last.n > 0
    => /\ EndsWithTarget(last.text, last.targets)
       /\ \A m \in 1..(Len(last.text) - 1) :
            ~EndsWithTarget(SubSeq(last.text, 1, m), last.targets)
       /\ last.before = last.text \o stream

\* expect returned a line while a later line and a prompt were still unread
C17_Witness ==
  /\ last.op = "expect"
  /\ last.targets = {<<"NL">>, DebugPrompt, OctavePrompt}
  /\ last.text = <<"t1", "NL">>
  /\ stream = <<"octave>", "SP">>

\* C18: a close by the main thread that began while the second thread was
\* before its write, at a read or in the bridge of evaluate on the same
\* _Session returns normally, and the handle is None after it.
C18_CloseBesideEvaluate ==
  last.op = "close" /\ thread.cl = "idle" /\ thread.at \in Inside /\ last.sid = thread.s
    => last.exc = "none" /\ proc[last.sid] = "none"

\* a close that began while the thread was in the bridge returned normally
C18_Witness ==
  /\ last.op = "close"
  /\ thread.cl = "idle"
  /\ thread.at = "bridge"
  /\ last.sid = thread.s
  /\ last.exc = "none"
  /\ proc[last.sid] = "none"

Running == {s \in Sessions : live[s]}

\* C19: at most one engine process started by the Oct2Py object is running;
\* after restart() on an object whose session is open, the process started
\* before is not running.
C19_OneLiveEngine == Cardinality(Running) <= 1

\* restart() on an object whose session was closed: one engine is running
C19_Witness ==
  /\ last.op = "restart"
  /\ last.exc = "none"
  /\ last.sid = NoSession
  /\ Running = {session}

\* C20: every operation that uses the transport of a _Session uses the
\* transport its handle was created with: the module's spawn is TRUE exactly
\* when the handle is a pseudo-terminal's.
C20_TransportFixed ==
  last.io /\ last.pre \in {"pty", "pipe"} => (last.prespawn <=> last.pre = "pty")

\* a run on a pipe handle started after the pseudo-terminal start had failed
C20_Witness ==
  /\ last.op = "run"
  /\ last.io
  /\ last.pre = "pipe"
  /\ ~last.prespawn
  /\ last.sid = 2
  /\ proc[1] = "pty"
  /\ last.exc = "none"

\* an evaluate on a plain-pipe handle whose engine was running ended by
\* returning or by the diagnostic of the error-marker
PipeEvaluated(rec) ==
  /\ rec.op = "run"
  /\ rec.io
  /\ rec.pre = "pipe"
  /\ ~rec.prespawn
  /\ rec.exc = "none" \/ (rec.exc = "Oct2PyError" /\ rec.site = 580)

C21_Consumed ==
  Step /\ session # NoSession /\ live[session] /\ PipeEvaluated(last')
    => stream' = <<>>

C21_NextOwn ==
  Step /\ PipeEvaluated(last) /\ last.sid = session /\ live[session] /\ PlainRun(last')
    => /\ last'.exc = "none"
       /\ last'.ret = OwnOutput(last'.body)

\* C21: on the plain-pipe transport an evaluate that returns normally or
\* raises the diagnostic of the error-marker has read everything the engine
\* emitted for its command, and the evaluate that follows it on the Session
\* returns its own output only.
C21_PipeEvaluateConsumesAll == [][C21_Consumed /\ C21_NextOwn]_vars

\* a run on a pipe returned its own output right after a run that ended with
\* the diagnostic of the error-marker, and nothing is left unread
C21_Witness ==
  /\ PlainRun(last)
  /\ PipeEvaluated(last)
  /\ last.prev = 580
  /\ last.ret = <<"t1">>
  /\ stream = <<>>

\* C22: when the engine process has ended while evaluate waits for a marker,
\* evaluate eventually stops, by returning or by raising.
C22_EvaluateStops ==
  (thread.pc = "read" /\ ~live[thread.s]) ~> (thread.pc = "ended")

\* on a pseudo-terminal, evaluate was waiting when the engine ended and
\* pexpect's EOF ended it
C22_Witness ==
  /\ thread.pc = "ended"
  /\ thread.exc = "EOF"
  /\ proc[thread.s] = "pty"
  /\ ~live[thread.s]

\* C23: a command the engine runs to its end without an error is never
\* reported as a syntax error, whatever its output lines hold, and evaluate
\* returns its output.
C23_OutputNeverSyntaxError ==
  PlainRun(last) /\ last.io /\ last.insync
    => /\ last.site \notin SyntaxSites
       /\ last.exc = "none" => last.ret = OwnOutput(last.body)

\* a command printed a line with the words 'syntax error' and no caret after
\* it, and evaluate returned the line
C23_Witness ==
  /\ PlainRun(last)
  /\ last.io
  /\ last.insync
  /\ last.exc = "none"
  /\ last.body = << <<"t1", "SP", "SE">> >>
  /\ last.ret = <<"t1", "SP", "SE">>

====